---------------------------- MODULE Spec2Model ----------------------------
(***************************************************************************)
(* K-12 district analytics proof of concept: the synthetic data generator  *)
(* (src/src/generate_data.py), the quality checker                         *)
(* (src/src/quality_checks.py) and the analysis engine                     *)
(* (src/src/analysis.py).                                                  *)
(*                                                                         *)
(* Tables are sequences of records (one record per DataFrame row, in row   *)
(* order).  Only the columns that the modelled code reads are kept.  FTE   *)
(* values are integers in hundredths (the generator rounds to two          *)
(* decimals); every other floating point value is an exact rational with   *)
(* the two special values NaN and inf.                                     *)
(***************************************************************************)
EXTENDS Integers, Sequences, FiniteSets, TLC

VARIABLES
    pc,             \* position of the running function
    cfg,            \* GenConfig
    draws,          \* number of calls made on the random generator
    out_dir,        \* the output directory: [exists, files]
    schools, students, student_school, educators, staffing, assessments,
    i,              \* loop index of the running function
    results,        \* run_quality_checks: the report
    gap_tbl,        \* proficiency_by_subgroup: the rows appended to out
    ratio_tbl,      \* staffing_ratio_table: the returned table
    ratio_prof,     \* ratio_vs_proficiency: [df, corr]
    rng,            \* the values read so far from the stream of
                    \* default_rng(cfg.seed), by position in the stream
    warehouse,      \* the curated tables the pipeline wrote
    prev            \* what an earlier run of the pipeline left, if any

vars == <<pc, cfg, draws, out_dir, schools, students, student_school,
          educators, staffing, assessments, i, results, gap_tbl, ratio_tbl,
          ratio_prof, rng, warehouse, prev>>

tables == <<schools, students, student_school, educators, staffing, assessments>>

outputs == <<results, gap_tbl, ratio_tbl, ratio_prof>>

(***************************************************************************)
(* Bounds of the model.                                                    *)
(***************************************************************************)
MaxDistricts == 1
MaxSchools == 2
MaxStudents == 2
MaxEducators == 1
MaxId == 2          \* ids of the input tables of the checker and the analyses
MaxRows == 2        \* rows of an input table

(***************************************************************************)
(* Sequence helpers.                                                       *)
(***************************************************************************)
Range(s) == {s[k] : k \in DOMAIN s}

RECURSIVE SumSeq(_)
SumSeq(s) == IF s = <<>> THEN 0 ELSE Head(s) + SumSeq(Tail(s))

RECURSIVE FlatMap(_, _)
FlatMap(F(_), s) == IF s = <<>> THEN <<>> ELSE F(Head(s)) \o FlatMap(F, Tail(s))

Max(a, b) == IF a >= b THEN a ELSE b

(***************************************************************************)
(* generate_data.py                                                        *)
(***************************************************************************)
FirstSchoolId == 1001
FirstStudentId == 2000001
FirstEducatorId == 3000001

LevelNames == <<"elementary", "middle", "high">>

RoleNames == {"teacher", "counselor", "admin"}

\* rng.choice(np.arange(3, 13)): the grades a draw can return
Grades == 3..12

\* level_mask: students["grade_level"].between(lo, hi), both ends included
LevelMask(lvl, grade) ==
    CASE lvl = "elementary" -> 3 <= grade /\ grade <= 5
      [] lvl = "middle"     -> 6 <= grade /\ grade <= 8
      [] lvl = "high"       -> 9 <= grade /\ grade <= 12

\* np.round(rng.uniform(0.3, remaining), 2), in hundredths
UniformRounded(remaining) == 30..remaining

\* FteLoop with the budget never decremented: the last assignment gets a
\* whole FTE on top of what was drawn
RECURSIVE FteLoopNoDecrement(_, _, _, _)
FteLoopNoDecrement(j, n_assign, remaining, u) ==
    IF j > n_assign THEN <<>>
    ELSE LET fte == IF j = n_assign THEN remaining ELSE u[j]
         IN  <<fte>> \o FteLoopNoDecrement(j + 1, n_assign, remaining, u)

\* the inner loop "for j, sid in enumerate(schools_for_e)": u[j] is the value
\* drawn for a non-final assignment; returns the fte of each assignment
RECURSIVE FteLoop(_, _, _, _)
FteLoop(j, n_assign, remaining, u) ==
    IF j > n_assign THEN <<>>
    ELSE LET fte == IF j = n_assign THEN remaining ELSE u[j]
         IN  <<fte>> \o FteLoop(j + 1, n_assign, Max(0, remaining - fte), u)

\* rng.choice(school_ids, size=n_assign, replace=False)
ChoiceNoReplace(ids, n) ==
    {s \in [1..n -> Range(ids)] : \A a, b \in 1..n : a # b => s[a] # s[b]}

\* a value read from the stream at position pos, one of S: the stream is a
\* function of the seed alone, so a position read before gives the same value
\* again; a position not read before can hold any value
DrawUnseeded(S, pos) == S

Draw(S, pos) == IF pos \in DOMAIN rng /\ rng[pos] \in S THEN {rng[pos]} ELSE S

\* the stream r with the value v known at position pos
Known(r, pos, v) == IF pos \in DOMAIN r THEN [r EXCEPT ![pos] = v] ELSE r @@ (pos :> v)

GenConfigs ==
    [seed : {-1, 7},
     n_districts : 0..MaxDistricts,
     n_schools : -1..MaxSchools,
     n_students : -1..MaxStudents,
     n_educators : -1..MaxEducators]

NoDir == [exists |-> FALSE, files |-> <<>>]

InitGen ==
    /\ pc = "default_rng"
    /\ cfg \in GenConfigs
    /\ draws = 0
    /\ out_dir \in {NoDir, [exists |-> TRUE, files |-> <<>>]}
    /\ schools = <<>> /\ students = <<>> /\ student_school = <<>>
    /\ educators = <<>> /\ staffing = <<>> /\ assessments = <<>>
    /\ i = 0
    /\ results = <<>> /\ gap_tbl = <<>> /\ ratio_tbl = <<>> /\ ratio_prof = <<>>
    /\ rng = <<>> /\ warehouse = <<>> /\ prev = <<>>

\* rng = np.random.default_rng(cfg.seed): a negative seed is rejected
DefaultRng ==
    /\ pc = "default_rng"
    /\ pc' = IF cfg.seed < 0 THEN "raised" ELSE "mkdir"
    /\ UNCHANGED <<rng, warehouse, prev>>
    /\ UNCHANGED <<cfg, draws, out_dir, tables, i, outputs>>

\* out_dir.mkdir(parents=True, exist_ok=True)
Mkdir ==
    /\ pc = "mkdir"
    /\ out_dir' = [out_dir EXCEPT !.exists = TRUE]
    /\ pc' = "schools"
    /\ UNCHANGED <<rng, warehouse, prev>>
    /\ UNCHANGED <<cfg, draws, tables, i, outputs>>

\* rng.integers(1, n_districts + 1, n_schools) raises on a negative size and,
\* for a non-empty size, on an empty interval
GenSchools ==
    /\ pc = "schools"
    /\ \/ /\ cfg.n_schools < 0 \/ (cfg.n_schools > 0 /\ cfg.n_districts < 1)
          /\ pc' = "raised"
          /\ UNCHANGED <<draws, schools, rng>>
       \/ /\ cfg.n_schools >= 0
          /\ cfg.n_schools > 0 => cfg.n_districts >= 1
          /\ \E levels \in Draw([1..cfg.n_schools -> Range(LevelNames)], draws) :
                /\ schools' = [k \in 1..cfg.n_schools |->
                                 [school_id |-> FirstSchoolId + k - 1,
                                  school_level |-> levels[k]]]
                /\ rng' = Known(rng, draws, levels)
          /\ draws' = draws + 3
          /\ pc' = "students"
    /\ UNCHANGED <<warehouse, prev>>
    /\ UNCHANGED <<cfg, out_dir, students, student_school, educators, staffing,
                   assessments, i, outputs>>

\* the students table; student_school = np.empty(n_students) is not yet
\* assigned (0 stands for an unassigned entry)
GenStudents ==
    /\ pc = "students"
    /\ \/ /\ cfg.n_students < 0
          /\ pc' = "raised"
          /\ UNCHANGED <<draws, students, student_school, i, rng>>
       \/ /\ cfg.n_students >= 0
          /\ \E grade \in Draw([1..cfg.n_students -> Grades], draws) :
                /\ students' = [k \in 1..cfg.n_students |->
                                  [student_id |-> FirstStudentId + k - 1,
                                   grade_level |-> grade[k]]]
                /\ rng' = Known(rng, draws, grade)
          /\ student_school' = [k \in 1..cfg.n_students |-> 0]
          /\ draws' = draws + 7
          /\ i' = 1
          /\ pc' = "assign"
    /\ UNCHANGED <<warehouse, prev>>
    /\ UNCHANGED <<cfg, out_dir, schools, educators, staffing, assessments, outputs>>

EligibleSchools(lvl) ==
    {schools[k].school_id : k \in {x \in DOMAIN schools : schools[x].school_level = lvl}}

LevelIdx(lvl) == {k \in DOMAIN students : LevelMask(lvl, students[k].grade_level)}

\* one iteration of "for lvl in [elementary, middle, high]":
\* student_school[idx] = rng.choice(eligible_schools, size=len(idx)), which
\* raises when eligible_schools is empty and idx is not; after the last
\* iteration students["school_id"] = student_school
AssignLevel ==
    /\ pc = "assign"
    /\ LET lvl == LevelNames[i]
           eligible == EligibleSchools(lvl)
           idx == LevelIdx(lvl)
       IN  \/ /\ eligible = {} /\ idx # {}
              /\ pc' = "raised"
              /\ UNCHANGED <<draws, students, student_school, i, rng>>
           \/ /\ eligible # {} \/ idx = {}
              /\ \E pick \in Draw([idx -> eligible], draws) :
                    /\ student_school' = [k \in DOMAIN student_school |->
                                            IF k \in idx THEN pick[k]
                                            ELSE student_school[k]]
                    /\ rng' = Known(rng, draws, pick)
              /\ draws' = draws + 1
              /\ IF i < Len(LevelNames)
                   THEN /\ i' = i + 1
                        /\ pc' = "assign"
                        /\ UNCHANGED students
                   ELSE /\ i' = 1
                        /\ pc' = "educators"
                        /\ students' = [k \in DOMAIN students |->
                                          [student_id |-> students[k].student_id,
                                           grade_level |-> students[k].grade_level,
                                           school_id |-> student_school'[k]]]
    /\ UNCHANGED <<warehouse, prev>>
    /\ UNCHANGED <<cfg, out_dir, schools, educators, staffing, assessments, outputs>>

GenEducators ==
    /\ pc = "educators"
    /\ \/ /\ cfg.n_educators < 0
          /\ pc' = "raised"
          /\ UNCHANGED <<draws, educators, rng>>
       \/ /\ cfg.n_educators >= 0
          /\ \E role \in Draw([1..cfg.n_educators -> RoleNames], draws) :
                /\ educators' = [k \in 1..cfg.n_educators |->
                                   [educator_id |-> FirstEducatorId + k - 1,
                                    role |-> role[k]]]
                /\ rng' = Known(rng, draws, role)
          /\ draws' = draws + 3
          /\ pc' = IF cfg.n_educators = 0 THEN "assessments" ELSE "staffing"
    /\ UNCHANGED <<warehouse, prev>>
    /\ UNCHANGED <<cfg, out_dir, schools, students, student_school, staffing,
                   assessments, i, outputs>>

\* the rows appended for educator e with the drawn n_assign, schools_for_e, u
StaffingRows(e, n_assign, schools_for_e, u) ==
    LET ftes == FteLoop(1, n_assign, 100, u)
    IN  [j \in 1..n_assign |->
           [school_id |-> schools_for_e[j],
            educator_id |-> e.educator_id,
            fte |-> ftes[j]]]

\* one iteration of "for _, e in educators.iterrows()"
StaffEducator ==
    /\ pc = "staffing"
    /\ \E n_assign \in Draw({1, 2}, draws) :
         LET school_ids == [k \in DOMAIN schools |-> schools[k].school_id]
         IN  \/ /\ n_assign > Len(school_ids)
                /\ rng' = Known(rng, draws, n_assign)
                /\ draws' = draws + 1
                /\ pc' = "raised"
                /\ UNCHANGED <<staffing, i>>
             \/ /\ n_assign <= Len(school_ids)
                /\ \E schools_for_e \in Draw(ChoiceNoReplace(school_ids, n_assign),
                                             draws + 1) :
                   \E u \in Draw([1..(n_assign - 1) -> UniformRounded(100)], draws + 2) :
                      /\ staffing' = staffing \o
                            StaffingRows(educators[i], n_assign, schools_for_e, u)
                      /\ rng' = Known(Known(Known(rng, draws, n_assign),
                                            draws + 1, schools_for_e), draws + 2, u)
                /\ draws' = draws + 1 + 2 * n_assign
                /\ i' = i + 1
                /\ pc' = IF i < Len(educators) THEN "staffing" ELSE "assessments"
    /\ UNCHANGED <<warehouse, prev>>
    /\ UNCHANGED <<cfg, out_dir, schools, students, student_school, educators,
                   assessments, outputs>>

\* the rows of one subject: one per student, carrying students["school_id"]
\* (scale_score and proficient_flag, which nothing in the generator reads
\* back, are left out)
SubjectRows(subj) ==
    [k \in DOMAIN students |->
       [student_id |-> students[k].student_id,
        school_id |-> students[k].school_id,
        term |-> "spring",
        subject |-> subj]]

GenAssessments ==
    /\ pc = "assessments"
    /\ assessments' = SubjectRows("ela") \o SubjectRows("math")
    /\ draws' = draws + 4
    /\ pc' = "write"
    /\ UNCHANGED <<rng, warehouse, prev>>
    /\ UNCHANGED <<cfg, out_dir, schools, students, student_school, educators,
                   staffing, i, outputs>>

\* students.drop(columns=["school_id"])
DropSchoolId(tbl) ==
    [k \in DOMAIN tbl |-> [student_id |-> tbl[k].student_id,
                           grade_level |-> tbl[k].grade_level]]

\* pd.DataFrame({"student_id": ..., "school_id": ...})
BridgeOf(tbl) ==
    [k \in DOMAIN tbl |-> [student_id |-> tbl[k].student_id,
                           school_id |-> tbl[k].school_id]]

WriteCsv ==
    /\ pc = "write"
    /\ out_dir' = [exists |-> TRUE,
                   files |-> [schools |-> schools,
                              students |-> DropSchoolId(students),
                              student_school |-> BridgeOf(students),
                              educators |-> educators,
                              staffing |-> staffing,
                              assessments |-> assessments]]
    /\ pc' = "done"
    /\ UNCHANGED <<rng, warehouse, prev>>
    /\ UNCHANGED <<cfg, draws, tables, i, outputs>>

NextGen ==
    \/ DefaultRng
    \/ Mkdir
    \/ GenSchools
    \/ GenStudents
    \/ AssignLevel
    \/ GenEducators
    \/ StaffEducator
    \/ GenAssessments
    \/ WriteCsv

SpecGen == InitGen /\ [][NextGen]_vars

(***************************************************************************)
(* Claims about generate_all.                                              *)
(***************************************************************************)
PositiveCounts ==
    /\ cfg.seed >= 0
    /\ cfg.n_districts > 0 /\ cfg.n_schools > 0
    /\ cfg.n_students > 0 /\ cfg.n_educators > 0

LevelOfSchool(sid) ==
    {schools[k].school_level : k \in {x \in DOMAIN schools : schools[x].school_id = sid}}

\* every student has exactly one bridge row, to a school of the schools
\* table whose level is that of the student's grade band
BridgeMatchesBands ==
    LET f == out_dir.files
    IN  \A s \in DOMAIN f.students :
          /\ Cardinality({b \in DOMAIN f.student_school :
                 f.student_school[b].student_id = f.students[s].student_id}) = 1
          /\ \A b \in DOMAIN f.student_school :
                f.student_school[b].student_id = f.students[s].student_id =>
                  \E k \in DOMAIN f.schools :
                     /\ f.schools[k].school_id = f.student_school[b].school_id
                     /\ LevelMask(f.schools[k].school_level, f.students[s].grade_level)

\* C2: for every configuration with positive counts and every outcome of
\* the random draws, generate_all completes (never raises) and in its output
\* every student has exactly one bridge row, whose school exists and has the
\* level of the student's grade band.
C2_CompletesWithValidBridge ==
    PositiveCounts => /\ pc # "raised"
                      /\ pc = "done" => BridgeMatchesBands

EducatorFte(e) ==
    SumSeq([k \in 1..Len(SelectSeq(staffing, LAMBDA r : r.educator_id = e)) |->
              SelectSeq(staffing, LAMBDA r : r.educator_id = e)[k].fte])

\* C3: every staffing row that generate_all produces has 0.0 <= fte <= 1.0,
\* and the fte of one educator's staffing rows sum to at most 1.0
\* (100 hundredths), whatever was drawn.
C3_FteWithinBudget ==
    /\ \A k \in DOMAIN staffing : 0 <= staffing[k].fte /\ staffing[k].fte <= 100
    /\ \A e \in DOMAIN educators : EducatorFte(educators[e].educator_id) <= 100

\* an educator split between two schools, the first share drawn strictly
\* inside the interval, in a run that completed
C3_Witness ==
    /\ pc = "done"
    /\ \E a, b \in DOMAIN staffing :
          /\ a < b
          /\ staffing[a].educator_id = staffing[b].educator_id
          /\ staffing[a].fte = 37 /\ staffing[b].fte = 63

InvalidConfig ==
    \/ cfg.seed < 0
    \/ cfg.n_districts <= 0 \/ cfg.n_schools <= 0
    \/ cfg.n_students <= 0 \/ cfg.n_educators <= 0

\* C10: with an invalid count or seed, generate_all fails before generation
\* begins: no step of the call completes it, creates or writes the output
\* directory, consumes a random draw or generates a table.
C10_FailsBeforeGeneration ==
    [][InvalidConfig => /\ pc' # "done"
                        /\ out_dir' = out_dir
                        /\ draws' = draws
                        /\ tables' = tables]_vars

(***************************************************************************)
(* Floating point values: an exact rational n/d (d > 0, lowest terms), NaN *)
(* or a signed infinity.  None is Python's None, Raised the outcome of an  *)
(* expression that raises.                                                 *)
(***************************************************************************)
Abs(x) == IF x < 0 THEN -x ELSE x

RECURSIVE GCD(_, _)
GCD(a, b) == IF b = 0 THEN a ELSE GCD(b, a % b)

NaN == [k |-> "nan", n |-> 0, d |-> 1]

None == [k |-> "none", n |-> 0, d |-> 1]

Raised == [k |-> "raised", n |-> 0, d |-> 1]

Inf(sign) == [k |-> "inf", n |-> sign, d |-> 1]

Frac(n, d) ==
    LET g == GCD(Abs(n), Abs(d))
        sgn == IF d < 0 THEN -1 ELSE 1
    IN  [k |-> "num", n |-> (sgn * n) \div g, d |-> Abs(d) \div g]

Num(n) == Frac(n, 1)

IsNum(v) == v.k = "num"

Sign(x) == IF x > 0 THEN 1 ELSE IF x < 0 THEN -1 ELSE 0

\* a / b on floats (numpy): x/0 is an infinity, 0/0 and anything with NaN is NaN
FDiv(a, b) ==
    IF a.k = "nan" \/ b.k = "nan" THEN NaN
    ELSE IF a.k = "inf" THEN (IF b.k = "inf" THEN NaN
                              ELSE Inf(a.n * (IF b.n < 0 THEN -1 ELSE 1)))
    ELSE IF b.k = "inf" THEN Num(0)
    ELSE IF b.n = 0 THEN (IF a.n = 0 THEN NaN ELSE Inf(Sign(a.n)))
    ELSE Frac(a.n * b.d, a.d * b.n)

FAdd(a, b) ==
    IF a.k = "nan" \/ b.k = "nan" THEN NaN
    ELSE IF a.k = "inf" THEN (IF b.k = "inf" /\ b.n # a.n THEN NaN ELSE a)
    ELSE IF b.k = "inf" THEN b
    ELSE Frac(a.n * b.d + b.n * a.d, a.d * b.d)

FNeg(a) == IF a.k = "nan" THEN NaN ELSE [a EXCEPT !.n = -a.n]

FSub(a, b) == FAdd(a, FNeg(b))

FMul(a, b) ==
    IF a.k = "nan" \/ b.k = "nan" THEN NaN
    ELSE IF a.k = "inf" \/ b.k = "inf"
           THEN (IF a.n = 0 \/ b.n = 0 THEN NaN ELSE Inf(Sign(a.n) * Sign(b.n)))
    ELSE Frac(a.n * b.n, a.d * b.d)

\* a > b: False when either side is NaN
FGt(a, b) ==
    /\ a.k # "nan" /\ b.k # "nan"
    /\ IF a.k = "inf" THEN a.n > 0 /\ ~(b.k = "inf" /\ b.n > 0)
       ELSE IF b.k = "inf" THEN b.n < 0
       ELSE a.n * b.d > b.n * a.d

FLe(a, b) == a.k # "nan" /\ b.k # "nan" /\ ~FGt(a, b)

\* int / int in Python: ZeroDivisionError on a zero divisor
PyDiv(a, b) == IF b = 0 THEN Raised ELSE Frac(a, b)

\* an fte in hundredths as a float
Fte(h) == Frac(h, 100)

(***************************************************************************)
(* pandas and numpy operations on columns (sequences) and Series           *)
(* (functions from the index to the values).                               *)
(***************************************************************************)
\* Series.is_unique
IsUnique(col) == Cardinality(Range(col)) = Len(col)

\* Series.duplicated().sum(): the rows that repeat an earlier row
DuplicatedSum(col) == Len(col) - Cardinality(Range(col))

\* Series.isin(values).sum(): the rows whose value is among values
IsinSum(col, values) == Cardinality({k \in DOMAIN col : col[k] \in Range(values)})

\* ~x on an integer: bitwise not in two's complement
Invert(x) == -x - 1

\* Series.replace(0, np.nan)
ReplaceZero(v) == IF IsNum(v) /\ v.n = 0 THEN NaN ELSE v

\* Series.replace([np.inf, -np.inf], np.nan)
ReplaceInf(v) == IF v.k = "inf" THEN NaN ELSE v

\* a / b on two Series: aligned on the union of the indexes, NaN where one
\* side has no entry
SeriesDiv(a, b) ==
    [s \in (DOMAIN a) \cup (DOMAIN b) |->
        IF s \in DOMAIN a /\ s \in DOMAIN b THEN FDiv(a[s], b[s]) ELSE NaN]

\* the largest of a non-empty set of numbers
MaxNum(S) == CHOOSE v \in S : \A w \in S : FLe(w, v)

\* np.nanmax: NaN is skipped; all NaN gives NaN (a warning); nothing at all
\* raises ValueError
NanMax(ser) ==
    LET nums == {ser[s] : s \in {x \in DOMAIN ser : ser[x].k # "nan"}}
    IN  IF DOMAIN ser = {} THEN Raised
        ELSE IF nums = {} THEN NaN
        ELSE MaxNum(nums)

\* Series.mean() of 0/1 flags: NaN for an empty Series
Mean(col) == IF Len(col) = 0 THEN NaN ELSE Frac(SumSeq(col), Len(col))

\* student_school.groupby("school_id")["student_id"].nunique()
StudentCounts(bridge) ==
    [s \in {bridge[k].school_id : k \in DOMAIN bridge} |->
        Num(Cardinality({bridge[k].student_id :
                            k \in {x \in DOMAIN bridge : bridge[x].school_id = s}}))]

\* staffing.merge(educators[["educator_id", "role"]], on="educator_id",
\* how="left"): one row per staffing row and matching educators row, and one
\* row with a missing role for a staffing row that matches none
MergeRole(staff, educ) ==
    LET F(r) ==
          LET m == SelectSeq(educ, LAMBDA e : e.educator_id = r.educator_id)
          IN  IF m = <<>>
                THEN <<[school_id |-> r.school_id, educator_id |-> r.educator_id,
                        fte |-> r.fte, role |-> "NaN"]>>
                ELSE [k \in DOMAIN m |->
                        [school_id |-> r.school_id, educator_id |-> r.educator_id,
                         fte |-> r.fte, role |-> m[k].role]]
    IN  FlatMap(F, staff)

\* merged[merged["role"] == "teacher"].groupby("school_id")["fte"].sum()
TeacherFte(staff, educ) ==
    LET t == SelectSeq(MergeRole(staff, educ), LAMBDA r : r.role = "teacher")
    IN  [s \in {t[k].school_id : k \in DOMAIN t} |->
           LET rows == SelectSeq(t, LAMBDA r : r.school_id = s)
           IN  Fte(SumSeq([k \in DOMAIN rows |-> rows[k].fte]))]

\* the index of a Series of integers as a sorted sequence
RECURSIVE SortedIndex(_)
SortedIndex(S) ==
    IF S = {} THEN <<>>
    ELSE LET m == CHOOSE x \in S : \A y \in S : x <= y
         IN  <<m>> \o SortedIndex(S \ {m})

(***************************************************************************)
(* Input tables of the checker and of the analyses.  A table is drawn up   *)
(* to the order of its rows: every operation on it is a count, a sum, a    *)
(* membership test or a group-by.                                          *)
(***************************************************************************)
Ids == 1..MaxId

RECURSIVE SetToSeq(_)
SetToSeq(S) ==
    IF S = {} THEN <<>>
    ELSE LET x == CHOOSE y \in S : TRUE IN <<x>> \o SetToSeq(S \ {x})

\* the tables of at most n rows over the row space S
TablesOver(S, n) ==
    LET U == SetToSeq(S)
    IN  UNION {{[k \in 1..m |-> U[ix[k]]] :
                  ix \in {f \in [1..m -> 1..Len(U)] :
                             \A a, b \in 1..m : a <= b => f[a] <= f[b]}} :
               m \in 0..n}

SchoolRowSpace == [school_id : Ids]

StudentRowSpace(flags) ==
    [student_id : Ids, frpl_flag : flags, ell_flag : flags, iep_flag : flags]

BridgeRowSpace == [student_id : Ids, school_id : Ids]

EducatorRowSpace(certs) ==
    [educator_id : Ids, role : {"teacher", "counselor"}, certification : certs]

\* fte in hundredths: none, a sliver, a whole position
StaffingRowSpace == [school_id : Ids, educator_id : Ids, fte : {0, 2, 100}]

AssessmentRowSpace(school_ids, flags) ==
    [student_id : Ids, school_id : school_ids, term : {"spring", "fall"},
     subject : {"ela", "math"}, proficient_flag : flags]

\* a clean one-school district
BaseSchools == <<[school_id |-> 1]>>

BaseStudents ==
    <<[student_id |-> 1, frpl_flag |-> 0, ell_flag |-> 0, iep_flag |-> 0]>>

BaseBridge == <<[student_id |-> 1, school_id |-> 1]>>

BaseEducators ==
    <<[educator_id |-> 1, role |-> "teacher", certification |-> "standard"]>>

BaseStaffing == <<[school_id |-> 1, educator_id |-> 1, fte |-> 100]>>

BaseAssessments ==
    <<[student_id |-> 1, school_id |-> 1, term |-> "spring", subject |-> "ela",
       proficient_flag |-> 1],
      [student_id |-> 1, school_id |-> 1, term |-> "spring", subject |-> "math",
       proficient_flag |-> 1]>>

\* tables carrying one data-quality violation each
DupSchools == BaseSchools \o BaseSchools

DupStudents == BaseStudents \o BaseStudents

DanglingBridge == <<[student_id |-> MaxId, school_id |-> MaxId]>>

UncertifiedDupEducators ==
    <<[educator_id |-> 1, role |-> "teacher", certification |-> "none"],
      [educator_id |-> 1, role |-> "teacher", certification |-> "none"]>>

OverBudgetStaffing == BaseStaffing \o BaseStaffing

SliverStaffing == <<[school_id |-> 1, educator_id |-> 1, fte |-> 2]>>

OneSubjectAssessments == <<BaseAssessments[1]>>

\* the inputs of run_quality_checks: for each group of checks the tables it
\* reads drawn in full beside clean tables, and every combination of an
\* empty, a clean and a violating table
QAInputs ==
    (TablesOver(SchoolRowSpace, MaxRows) \X TablesOver(StudentRowSpace({0}), MaxRows)
       \X TablesOver(BridgeRowSpace, MaxRows)
       \X {BaseEducators} \X {BaseStaffing} \X {BaseAssessments})
    \cup
    ({BaseSchools} \X TablesOver(StudentRowSpace({0}), MaxRows) \X {BaseBridge}
       \X {BaseEducators} \X {BaseStaffing}
       \X TablesOver(AssessmentRowSpace({1}, {1}), MaxRows))
    \cup
    ({BaseSchools} \X {BaseStudents} \X {BaseBridge}
       \X TablesOver(EducatorRowSpace({"standard", "none"}), MaxRows)
       \X {BaseStaffing} \X {BaseAssessments})
    \cup
    ({BaseSchools} \X {BaseStudents} \X {BaseBridge} \X {BaseEducators}
       \X TablesOver(StaffingRowSpace, MaxRows) \X {BaseAssessments})
    \cup
    ({<<>>, BaseSchools, DupSchools} \X {<<>>, BaseStudents, DupStudents}
       \X {<<>>, BaseBridge, DanglingBridge}
       \X {<<>>, BaseEducators, UncertifiedDupEducators}
       \X {<<>>, BaseStaffing, OverBudgetStaffing, SliverStaffing}
       \X {<<>>, BaseAssessments, OneSubjectAssessments})

\* the state of a call of one function on the tables t
Call(fn, t) ==
    /\ pc = fn
    /\ schools = t[1] /\ students = t[2] /\ student_school = t[3]
    /\ educators = t[4] /\ staffing = t[5] /\ assessments = t[6]
    /\ cfg = <<>> /\ draws = 0 /\ out_dir = NoDir /\ i = 0
    /\ results = <<>> /\ gap_tbl = <<>> /\ ratio_prof = <<>>
    /\ rng = <<>> /\ warehouse = <<>> /\ prev = <<>>

(***************************************************************************)
(* quality_checks.py                                                       *)
(***************************************************************************)
StudentIdCol(tbl) == [k \in DOMAIN tbl |-> tbl[k].student_id]

SchoolIdCol(tbl) == [k \in DOMAIN tbl |-> tbl[k].school_id]

EducatorIdCol(tbl) == [k \in DOMAIN tbl |-> tbl[k].educator_id]

\* add_check: the entry appended to results["checks"]
AddCheck(name, passed, detail) ==
    [name |-> name, passed |-> passed, detail |-> detail]

\* 1) primary key uniqueness
CheckStudentsUnique ==
    AddCheck("students_unique_id", IsUnique(StudentIdCol(students)),
             [duplicate_count |-> DuplicatedSum(StudentIdCol(students))])

CheckEducatorsUnique ==
    AddCheck("educators_unique_id", IsUnique(EducatorIdCol(educators)),
             [duplicate_count |-> DuplicatedSum(EducatorIdCol(educators))])

CheckSchoolsUnique ==
    AddCheck("schools_unique_id", IsUnique(SchoolIdCol(schools)),
             [duplicate_count |-> DuplicatedSum(SchoolIdCol(schools))])

\* 2) referential integrity: int(~student_school[col].isin(...).sum()); the
\* method calls bind tighter than ~, which therefore inverts the sum
MissingSchoolInMap ==
    Invert(IsinSum(SchoolIdCol(student_school), SchoolIdCol(schools)))

CheckValidSchoolId ==
    AddCheck("student_school_valid_school_id", MissingSchoolInMap = 0,
             [missing_school_refs |-> MissingSchoolInMap])

MissingStudentInMap ==
    Invert(IsinSum(StudentIdCol(student_school), StudentIdCol(students)))

CheckValidStudentId ==
    AddCheck("student_school_valid_student_id", MissingStudentInMap = 0,
             [missing_student_refs |-> MissingStudentInMap])

\* 3) staffing.groupby("educator_id")["fte"].sum(), in hundredths
StaffingFteByEduc ==
    [e \in Range(EducatorIdCol(staffing)) |->
        LET rows == SelectSeq(staffing, LAMBDA r : r.educator_id = e)
        IN  SumSeq([k \in DOMAIN rows |-> rows[k].fte])]

Over1 == {e \in DOMAIN StaffingFteByEduc : StaffingFteByEduc[e] > 105}

\* float(staffing_fte_by_educ.max()): NaN for an empty Series
MaxFte ==
    IF DOMAIN StaffingFteByEduc = {} THEN NaN
    ELSE Fte(CHOOSE v \in Range(StaffingFteByEduc) :
                \A w \in Range(StaffingFteByEduc) : w <= v)

CheckEducatorFte ==
    AddCheck("educator_total_fte_leq_1_05", Cardinality(Over1) = 0,
             [violations |-> Cardinality(Over1), max_fte |-> MaxFte])

\* 4) certification completeness for teachers
Teachers == SelectSeq(educators, LAMBDA e : e.role = "teacher")

Uncert == Len(SelectSeq(Teachers, LAMBDA e : e.certification = "none"))

\* uncert / len(teachers), with nothing to keep the divisor from 0
UncertRateUnguarded == PyDiv(Uncert, Len(Teachers))

\* uncert / max(1, len(teachers))
UncertRate == PyDiv(Uncert, Max(1, Len(Teachers)))

CheckCertification ==
    AddCheck("teacher_certification_none_rate_leq_0_02", FLe(UncertRate, Frac(2, 100)),
             [teacher_count |-> Len(Teachers), none_cert_count |-> Uncert,
              none_cert_rate |-> UncertRate])

\* 5) assessment coverage
Spring == SelectSeq(assessments, LAMBDA a : a.term = "spring")

\* spring.groupby("student_id")["subject"].nunique()
SubjectCnt ==
    [s \in Range(StudentIdCol(Spring)) |->
        Cardinality({Spring[k].subject :
                        k \in {x \in DOMAIN Spring : Spring[x].student_id = s}})]

MissingSubj == Cardinality({s \in DOMAIN SubjectCnt : SubjectCnt[s] < 2})

CheckCoverage ==
    AddCheck("assessment_coverage_two_subjects_spring", MissingSubj = 0,
             [students_missing_subject |-> MissingSubj])

\* 6) student_counts counted per bridge row instead of per distinct student
QARatioPerRow ==
    LET sc == [s \in Range(SchoolIdCol(student_school)) |->
                 Num(Len(SelectSeq(student_school, LAMBDA b : b.school_id = s)))]
        tf == TeacherFte(staffing, educators)
        q == SeriesDiv(sc, [s \in DOMAIN tf |-> ReplaceZero(tf[s])])
    IN  [s \in DOMAIN q |-> ReplaceInf(q[s])]

\* 6) students per teacher FTE by school
QARatio ==
    LET sc == StudentCounts(student_school)
        tf == TeacherFte(staffing, educators)
        q == SeriesDiv(sc, [s \in DOMAIN tf |-> ReplaceZero(tf[s])])
    IN  [s \in DOMAIN q |-> ReplaceInf(q[s])]

Extreme == {s \in DOMAIN QARatio : FGt(QARatio[s], Num(35))}

\* float(np.nanmax(ratio)) if ratio.notna().any() else None
MaxRatio ==
    IF \E s \in DOMAIN QARatio : QARatio[s].k # "nan" THEN NanMax(QARatio) ELSE None

CheckRatio ==
    AddCheck("students_per_teacher_fte_leq_35", Cardinality(Extreme) = 0,
             [extreme_schools |-> Cardinality(Extreme), max_ratio |-> MaxRatio])

Checks ==
    <<CheckStudentsUnique, CheckEducatorsUnique, CheckSchoolsUnique,
      CheckValidSchoolId, CheckValidStudentId, CheckEducatorFte,
      CheckCertification, CheckCoverage, CheckRatio>>

Summary(checks) ==
    [total_checks |-> Len(checks),
     passed_checks |-> Cardinality({k \in DOMAIN checks : checks[k].passed}),
     failed_checks |-> Cardinality({k \in DOMAIN checks : ~checks[k].passed})]

\* an expression of the function raises
QARaises == UncertRate = Raised \/ MaxRatio = Raised

RunQualityChecks ==
    /\ pc = "run_quality_checks"
    /\ IF QARaises
         THEN pc' = "raised" /\ UNCHANGED results
         ELSE /\ results' = [checks |-> Checks, summary |-> Summary(Checks)]
              /\ pc' = "returned"
    /\ UNCHANGED <<rng, warehouse, prev>>
    /\ UNCHANGED <<cfg, draws, out_dir, tables, i, gap_tbl, ratio_tbl, ratio_prof>>

Init ==
    /\ \E t \in QAInputs : Call("run_quality_checks", t)
    /\ ratio_tbl = <<>>

Next == RunQualityChecks

Spec == Init /\ [][Next]_vars

(***************************************************************************)
(* Claims about run_quality_checks.                                        *)
(***************************************************************************)
\* the bridge rows whose school_id is not a school_id of schools
MissingSchoolRefs ==
    {k \in DOMAIN student_school :
        \A j \in DOMAIN schools : schools[j].school_id # student_school[k].school_id}

\* the bridge rows whose student_id is not a student_id of students
MissingStudentRefs ==
    {k \in DOMAIN student_school :
        \A j \in DOMAIN students : students[j].student_id # student_school[k].student_id}

\* C1: student_school_valid_school_id passes iff no bridge row has a
\* school_id absent from schools, and missing_school_refs is the number of
\* such rows; student_school_valid_student_id passes iff no bridge row has a
\* student_id absent from students, and missing_student_refs is the number of
\* such rows.
C1_MissingReferencesCounted ==
    pc = "returned" =>
        LET c4 == results.checks[4]
            c5 == results.checks[5]
        IN  /\ c4.name = "student_school_valid_school_id"
            /\ c4.passed <=> (MissingSchoolRefs = {})
            /\ c4.detail.missing_school_refs = Cardinality(MissingSchoolRefs)
            /\ c5.name = "student_school_valid_student_id"
            /\ c5.passed <=> (MissingStudentRefs = {})
            /\ c5.detail.missing_student_refs = Cardinality(MissingStudentRefs)

\* the distinct subjects of a student's spring rows
SpringSubjectsOf(sid) ==
    {assessments[k].subject :
        k \in {x \in DOMAIN assessments :
                 assessments[x].term = "spring" /\ assessments[x].student_id = sid}}

\* the students of the students table with fewer than 2 spring subjects
StudentsBelowTwo ==
    {sid \in Range(StudentIdCol(students)) : Cardinality(SpringSubjectsOf(sid)) < 2}

\* C4: assessment_coverage_two_subjects_spring passes iff every student of
\* the students table, a student without any spring row included, has
\* spring rows for at least 2 distinct subjects, and
\* students_missing_subject is the number of students with fewer than 2.
C4_CoverageOfEveryStudent ==
    pc = "returned" =>
        LET c8 == results.checks[8]
        IN  /\ c8.name = "assessment_coverage_two_subjects_spring"
            /\ c8.passed <=> (StudentsBelowTwo = {})
            /\ c8.detail.students_missing_subject = Cardinality(StudentsBelowTwo)

CheckNames ==
    <<"students_unique_id", "educators_unique_id", "schools_unique_id",
      "student_school_valid_school_id", "student_school_valid_student_id",
      "educator_total_fte_leq_1_05", "teacher_certification_none_rate_leq_0_02",
      "assessment_coverage_two_subjects_spring", "students_per_teacher_fte_leq_35">>

RECURSIVE CountPassed(_, _)
CountPassed(checks, want) ==
    IF checks = <<>> THEN 0
    ELSE (IF Head(checks).passed = want THEN 1 ELSE 0) + CountPassed(Tail(checks), want)

\* C5: whatever violations the six tables contain, run_quality_checks does
\* not raise; its report holds the same 9 named checks in the same order,
\* total_checks = 9, passed_checks and failed_checks count the entries with
\* passed=True and passed=False, and they add up to total_checks.
C5_AllChecksRunAndCounted ==
    /\ pc # "raised"
    /\ pc = "returned" =>
         /\ [k \in DOMAIN results.checks |-> results.checks[k].name] = CheckNames
         /\ \A k \in DOMAIN results.checks : results.checks[k].passed \in BOOLEAN
         /\ results.summary.total_checks = 9
         /\ results.summary.passed_checks = CountPassed(results.checks, TRUE)
         /\ results.summary.failed_checks = CountPassed(results.checks, FALSE)
         /\ results.summary.passed_checks + results.summary.failed_checks
               = results.summary.total_checks

\* a report whose first seven checks all failed and whose last two checks
\* ran and passed
C5_Witness ==
    /\ pc = "returned"
    /\ \A k \in 1..7 : ~results.checks[k].passed
    /\ results.checks[8].passed
    /\ results.checks[9].passed
    /\ results.summary.failed_checks = 7

(***************************************************************************)
(* analysis.py                                                             *)
(***************************************************************************)
\* assessments.merge(students, on="student_id", how="left"): one row per
\* assessment row and matching students row; a row that matches no student
\* keeps missing flags (-1 stands for the missing value, equal to neither 0
\* nor 1)
MergeStudents(assess, studs) ==
    LET F(a) ==
          LET m == SelectSeq(studs, LAMBDA st : st.student_id = a.student_id)
          IN  IF m = <<>>
                THEN <<[term |-> a.term, subject |-> a.subject,
                        proficient_flag |-> a.proficient_flag,
                        frpl_flag |-> -1, ell_flag |-> -1, iep_flag |-> -1]>>
                ELSE [k \in DOMAIN m |->
                        [term |-> a.term, subject |-> a.subject,
                         proficient_flag |-> a.proficient_flag,
                         frpl_flag |-> m[k].frpl_flag, ell_flag |-> m[k].ell_flag,
                         iep_flag |-> m[k].iep_flag]]
    IN  FlatMap(F, assess)

Subjects == <<"ela", "math">>

Subgroups ==
    <<[grp |-> "FRPL", col |-> "frpl_flag"],
      [grp |-> "ELL", col |-> "ell_flag"],
      [grp |-> "IEP", col |-> "iep_flag"]>>

\* d.loc[d[col] == v, "proficient_flag"].mean()
GroupMean(d, col, v) ==
    LET g == SelectSeq(d, LAMBDA r : r[col] = v)
    IN  Mean([k \in DOMAIN g |-> g[k].proficient_flag])

\* the rows appended to out, in the order of the two loops
GapRows(assess, studs) ==
    LET df == SelectSeq(MergeStudents(assess, studs), LAMBDA r : r.term = "spring")
        F(subj) ==
          LET d == SelectSeq(df, LAMBDA r : r.subject = subj)
          IN  [g \in DOMAIN Subgroups |->
                 LET p1 == GroupMean(d, Subgroups[g].col, 1)
                     p0 == GroupMean(d, Subgroups[g].col, 0)
                 IN  [subject |-> subj, group |-> Subgroups[g].grp,
                      proficiency_group_1 |-> p1, proficiency_group_0 |-> p0,
                      gap_group0_minus_group1 |-> FSub(p0, p1)]]
    IN  FlatMap(F, Subjects)

ProficiencyBySubgroup ==
    /\ pc = "proficiency_by_subgroup"
    /\ gap_tbl' = GapRows(assessments, students)
    /\ pc' = "returned"
    /\ UNCHANGED <<rng, warehouse, prev>>
    /\ UNCHANGED <<cfg, draws, out_dir, tables, i, results, ratio_tbl, ratio_prof>>

\* pd.concat([student_counts, teacher_fte], axis=1).reset_index(): one row per
\* school of either index, NaN where a Series has no entry (the rows are
\* listed by school_id; nothing below depends on their order)
ConcatColumns(sc, tf) ==
    LET idx == SortedIndex((DOMAIN sc) \cup (DOMAIN tf))
    IN  [k \in DOMAIN idx |->
           [school_id |-> idx[k],
            n_students |-> IF idx[k] \in DOMAIN sc THEN sc[idx[k]] ELSE NaN,
            teacher_fte |-> IF idx[k] \in DOMAIN tf THEN tf[idx[k]] ELSE NaN]]

\* out["students_per_teacher_fte"] =
\*     out["n_students"] / out["teacher_fte"].replace(0, np.nan)
RatioColumn(r) ==
    [school_id |-> r.school_id, n_students |-> r.n_students,
     teacher_fte |-> r.teacher_fte,
     students_per_teacher_fte |-> FDiv(r.n_students, ReplaceZero(r.teacher_fte))]

StaffingRatioTableOf(bridge, staff, educ) ==
    LET out == ConcatColumns(StudentCounts(bridge), TeacherFte(staff, educ))
    IN  [k \in DOMAIN out |-> RatioColumn(out[k])]

StaffingRatioTable ==
    /\ pc = "staffing_ratio_table"
    /\ ratio_tbl' = StaffingRatioTableOf(student_school, staffing, educators)
    /\ pc' = "returned"
    /\ UNCHANGED <<rng, warehouse, prev>>
    /\ UNCHANGED <<cfg, draws, out_dir, tables, i, results, gap_tbl, ratio_prof>>

\* spring.groupby("school_id")["proficient_flag"].mean()
SchoolProf(assess) ==
    LET spring == SelectSeq(assess, LAMBDA a : a.term = "spring")
    IN  [s \in Range(SchoolIdCol(spring)) |->
           LET rows == SelectSeq(spring, LAMBDA a : a.school_id = s)
           IN  Mean([k \in DOMAIN rows |-> rows[k].proficient_flag])]

\* ratio_tbl.merge(school_prof.reset_index(), on="school_id", how="left")
MergeProf(rt, sp) ==
    [k \in DOMAIN rt |->
       [school_id |-> rt[k].school_id, n_students |-> rt[k].n_students,
        teacher_fte |-> rt[k].teacher_fte,
        students_per_teacher_fte |-> rt[k].students_per_teacher_fte,
        avg_proficiency |-> IF rt[k].school_id \in DOMAIN sp
                              THEN sp[rt[k].school_id] ELSE NaN]]

\* df.dropna(subset=["students_per_teacher_fte", "avg_proficiency"])
DropNa(df) ==
    SelectSeq(df, LAMBDA r : r.students_per_teacher_fte.k # "nan"
                             /\ r.avg_proficiency.k # "nan")

RECURSIVE FSum(_)
FSum(s) == IF s = <<>> THEN Num(0) ELSE FAdd(Head(s), FSum(Tail(s)))

\* np.corrcoef(x, y)[0, 1] = cov(x, y) / sqrt(var(x) * var(y)), kept exact as
\* its sign and its square; 0/0, a NaN, when x or y has no variance
CorrCoef(x, y) ==
    LET n == Num(Len(x))
        sx == FSum(x)
        sy == FSum(y)
        sxy == FSub(FMul(n, FSum([k \in DOMAIN x |-> FMul(x[k], y[k])])), FMul(sx, sy))
        sxx == FSub(FMul(n, FSum([k \in DOMAIN x |-> FMul(x[k], x[k])])), FMul(sx, sx))
        syy == FSub(FMul(n, FSum([k \in DOMAIN y |-> FMul(y[k], y[k])])), FMul(sy, sy))
    IN  IF sxx.n = 0 \/ syy.n = 0 THEN NaN
        ELSE [k |-> "corr", n |-> Sign(sxy.n), d |-> 1,
              sq |-> FDiv(FMul(sxy, sxy), FMul(sxx, syy))]

\* the correlation computed as soon as two rows are valid
CorrOfTwoOrMore(valid) ==
    IF Len(valid) >= 2
      THEN CorrCoef([k \in DOMAIN valid |-> valid[k].students_per_teacher_fte],
                    [k \in DOMAIN valid |-> valid[k].avg_proficiency])
      ELSE NaN

\* np.corrcoef(...)[0, 1] if len(valid) > 2 else np.nan
CorrOf(valid) ==
    IF Len(valid) > 2
      THEN CorrCoef([k \in DOMAIN valid |-> valid[k].students_per_teacher_fte],
                    [k \in DOMAIN valid |-> valid[k].avg_proficiency])
      ELSE NaN

\* float(corr) if corr == corr else None
CorrAttr(corr) == IF corr.k = "nan" THEN None ELSE corr

RatioVsProficiency ==
    /\ pc = "ratio_vs_proficiency"
    /\ LET df == MergeProf(ratio_tbl, SchoolProf(assessments))
       IN  ratio_prof' = [df |-> df, corr |-> CorrAttr(CorrOf(DropNa(df)))]
    /\ pc' = "returned"
    /\ UNCHANGED <<rng, warehouse, prev>>
    /\ UNCHANGED <<cfg, draws, out_dir, tables, i, results, gap_tbl, ratio_tbl>>

(***************************************************************************)
(* The analyses, each called on inputs drawn from bounded sets.            *)
(***************************************************************************)
GapInputs ==
    {<<>>} \X TablesOver(StudentRowSpace({0, 1}), MaxRows + 1) \X {<<>>}
       \X {<<>>} \X {<<>>} \X TablesOver(AssessmentRowSpace({1}, {0, 1}), MaxRows)

InitGap ==
    /\ \E t \in GapInputs : Call("proficiency_by_subgroup", t)
    /\ ratio_tbl = <<>>

SpecGap == InitGap /\ [][ProficiencyBySubgroup]_vars

RatioInputs ==
    {BaseSchools} \X {BaseStudents} \X TablesOver(BridgeRowSpace, MaxRows)
       \X TablesOver(EducatorRowSpace({"standard"}), MaxRows)
       \X TablesOver(StaffingRowSpace, MaxRows) \X {BaseAssessments}

InitRatio ==
    /\ \E t \in RatioInputs : Call("staffing_ratio_table", t)
    /\ ratio_tbl = <<>>

SpecRatio == InitRatio /\ [][StaffingRatioTable]_vars

\* run_quality_checks on the inputs of staffing_ratio_table
InitRatioCheck ==
    /\ \E t \in RatioInputs : Call("run_quality_checks", t)
    /\ ratio_tbl = <<>>

SpecRatioCheck == InitRatioCheck /\ [][RunQualityChecks]_vars

(***************************************************************************)
(* Claims about proficiency_by_subgroup.                                   *)
(***************************************************************************)
GapOrder ==
    <<[subject |-> "ela", group |-> "FRPL", col |-> "frpl_flag"],
      [subject |-> "ela", group |-> "ELL", col |-> "ell_flag"],
      [subject |-> "ela", group |-> "IEP", col |-> "iep_flag"],
      [subject |-> "math", group |-> "FRPL", col |-> "frpl_flag"],
      [subject |-> "math", group |-> "ELL", col |-> "ell_flag"],
      [subject |-> "math", group |-> "IEP", col |-> "iep_flag"]>>

\* the students rows that carry the student_id of assessment row a and have
\* the flag col equal to v
FlagMatches(a, col, v) ==
    {j \in DOMAIN students :
        /\ students[j].student_id = assessments[a].student_id
        /\ students[j][col] = v}

InSlice(a, subj) ==
    assessments[a].term = "spring" /\ assessments[a].subject = subj

\* the mean of proficient_flag over the assessment rows, row a weighted w[a]
WeightedMean(w) ==
    LET cnt == SumSeq(w)
        tot == SumSeq([a \in DOMAIN assessments |-> w[a] * assessments[a].proficient_flag])
    IN  IF cnt = 0 THEN NaN ELSE Frac(tot, cnt)

\* over the spring rows of the subject whose student has the flag equal to v
RowMean(subj, col, v) ==
    WeightedMean([a \in DOMAIN assessments |->
                    IF InSlice(a, subj) /\ FlagMatches(a, col, v) # {} THEN 1 ELSE 0])

\* p0 - p1, undefined when either is
Difference(p0, p1) ==
    IF p0.k = "nan" \/ p1.k = "nan" THEN NaN
    ELSE Frac(p0.n * p1.d - p1.n * p0.d, p0.d * p1.d)

GapTableIs(M(_, _, _)) ==
    /\ Len(gap_tbl) = 6
    /\ \A k \in 1..6 :
         /\ gap_tbl[k].subject = GapOrder[k].subject
         /\ gap_tbl[k].group = GapOrder[k].group
         /\ gap_tbl[k].proficiency_group_1 = M(GapOrder[k].subject, GapOrder[k].col, 1)
         /\ gap_tbl[k].proficiency_group_0 = M(GapOrder[k].subject, GapOrder[k].col, 0)
         /\ gap_tbl[k].gap_group0_minus_group1 =
               Difference(gap_tbl[k].proficiency_group_0, gap_tbl[k].proficiency_group_1)

\* C6 as stated: for any assessments and students tables the result has the
\* 6 rows ela/FRPL .. math/IEP in that order, proficiency_group_1 and
\* proficiency_group_0 are the means of proficient_flag over the spring rows
\* of the subject whose student has the flag equal to 1 and to 0, the gap is
\* their difference, and an empty group makes its mean and the gap undefined.
C6_MeansOverSpringRows ==
    pc = "returned" => GapTableIs(RowMean)

(***************************************************************************)
(* Claims about staffing_ratio_table and the ratio check.                  *)
(***************************************************************************)
BridgeSchools == Range(SchoolIdCol(student_school))

DistinctStudents(s) ==
    {student_school[k].student_id :
        k \in {x \in DOMAIN student_school : student_school[x].school_id = s}}

\* the educators rows with this educator_id and the role "teacher"
TeacherEntries(eid) ==
    {j \in DOMAIN educators :
        educators[j].educator_id = eid /\ educators[j].role = "teacher"}

\* the staffing rows of school s whose educator is a teacher
TeacherRowsOf(s) ==
    {k \in DOMAIN staffing :
        staffing[k].school_id = s /\ TeacherEntries(staffing[k].educator_id) # {}}

\* the sum of fte over them, in hundredths
TeacherFteSum(s) ==
    SumSeq([k \in DOMAIN staffing |->
              IF k \in TeacherRowsOf(s) THEN staffing[k].fte ELSE 0])

\* the same, a row counted once per educators row that makes it a teacher's
TeacherFteJoined(s) ==
    SumSeq([k \in DOMAIN staffing |->
              IF staffing[k].school_id = s
                THEN staffing[k].fte * Cardinality(TeacherEntries(staffing[k].educator_id))
                ELSE 0])

TeacherSchools == {s \in Range(SchoolIdCol(staffing)) : TeacherRowsOf(s) # {}}

\* C7 as stated: for any bridge, staffing and educators tables, for each
\* school n_students is the number of distinct student_ids the bridge maps to
\* it, teacher_fte the sum of fte over its staffing rows whose educator is a
\* teacher, and students_per_teacher_fte their quotient, undefined (never
\* infinite) when teacher_fte is zero or the school has no teacher row.
C7_RatioPerSchool ==
    pc = "returned" =>
        /\ \A s \in BridgeSchools \cup TeacherSchools :
              \E k \in DOMAIN ratio_tbl : ratio_tbl[k].school_id = s
        /\ \A k \in DOMAIN ratio_tbl :
              LET s == ratio_tbl[k].school_id
                  n == Cardinality(DistinctStudents(s))
              IN  /\ ratio_tbl[k].n_students = Num(n)
                  /\ TeacherRowsOf(s) # {} => ratio_tbl[k].teacher_fte = Fte(TeacherFteSum(s))
                  /\ ratio_tbl[k].students_per_teacher_fte =
                        IF TeacherRowsOf(s) = {} \/ TeacherFteSum(s) = 0 THEN NaN
                        ELSE Frac(100 * n, TeacherFteSum(s))

\* the schools whose distinct bridged students divided by their teacher FTE
\* exceed 35
OverThirtyFive ==
    {s \in BridgeSchools \cap TeacherSchools :
        /\ TeacherFteJoined(s) # 0
        /\ 100 * Cardinality(DistinctStudents(s)) > 35 * TeacherFteJoined(s)}

CorrSchools == 1..(MaxId + 2)

\* (n_students, teacher_fte) of a school: ratio undefined, 1 and 2
RatioOptions == {<<Num(1), Num(0)>>, <<Num(1), Num(1)>>, <<Num(2), Num(1)>>}

RatioTables ==
    UNION {{LET out == ConcatColumns([s \in D |-> o[s][1]], [s \in D |-> o[s][2]])
            IN  [k \in DOMAIN out |-> RatioColumn(out[k])] :
               o \in [D -> RatioOptions]} :
           D \in SUBSET CorrSchools}

CorrAssessments ==
    TablesOver([student_id : {1}, school_id : CorrSchools, term : {"spring", "fall"},
                subject : {"ela"}, proficient_flag : {0, 1}], MaxRows + 1)

InitCorr ==
    /\ \E a \in CorrAssessments :
          Call("ratio_vs_proficiency", <<<<>>, <<>>, <<>>, <<>>, <<>>, a>>)
    /\ ratio_tbl \in RatioTables

SpecCorr == InitCorr /\ [][RatioVsProficiency]_vars

(***************************************************************************)
(* Claims about ratio_vs_proficiency.                                      *)
(***************************************************************************)
SpringRowsOf(s) ==
    {a \in DOMAIN assessments :
        assessments[a].term = "spring" /\ assessments[a].school_id = s}

\* the rows of ratio_tbl with a defined ratio whose school has a spring row
ValidRows ==
    {k \in DOMAIN ratio_tbl :
        /\ ratio_tbl[k].students_per_teacher_fte.k = "num"
        /\ SpringRowsOf(ratio_tbl[k].school_id) # {}}

\* the mean of proficient_flag over the spring rows of school s
AvgProficiency(s) ==
    Frac(SumSeq([a \in DOMAIN assessments |->
                   IF a \in SpringRowsOf(s) THEN assessments[a].proficient_flag ELSE 0]),
         Cardinality(SpringRowsOf(s)))

ValidSeq == SelectSeq([k \in DOMAIN ratio_tbl |-> k], LAMBDA k : k \in ValidRows)

ValidRatios == [j \in DOMAIN ValidSeq |-> ratio_tbl[ValidSeq[j]].students_per_teacher_fte]

ValidAvgs == [j \in DOMAIN ValidSeq |-> AvgProficiency(ratio_tbl[ValidSeq[j]].school_id)]

AllEqual(x) == \A a, b \in DOMAIN x : x[a] = x[b]

\* the rows of the returned table with both values defined are the valid rows
ValidRowsAreBothDefined ==
    /\ Len(ratio_prof.df) = Len(ratio_tbl)
    /\ \A k \in DOMAIN ratio_tbl :
          /\ ratio_prof.df[k].school_id = ratio_tbl[k].school_id
          /\ (/\ ratio_prof.df[k].students_per_teacher_fte.k = "num"
              /\ ratio_prof.df[k].avg_proficiency.k = "num") <=> k \in ValidRows
          /\ k \in ValidRows =>
                ratio_prof.df[k].avg_proficiency = AvgProficiency(ratio_tbl[k].school_id)

\* C8 as stated: the valid rows are exactly the schools with a defined ratio
\* and a defined avg_proficiency; with fewer than 3 valid rows the recorded
\* correlation is None; with at least 3 a correlation is computed from the
\* valid rows only and recorded as defined.
C8_CorrelationDefinedFromThree ==
    pc = "returned" =>
        /\ ValidRowsAreBothDefined
        /\ Cardinality(ValidRows) < 3 => ratio_prof.corr = None
        /\ Cardinality(ValidRows) >= 3 =>
              /\ ratio_prof.corr # None
              /\ ratio_prof.corr = CorrCoef(ValidRatios, ValidAvgs)

\* C8 amended: the same, except that with at least 3 valid rows the
\* correlation of the valid rows is recorded when it is a number and None is
\* recorded when it is not, which is the case exactly when the ratios or the
\* average proficiencies of the valid rows are all equal.
C8_CorrelationOfValidRows ==
    pc = "returned" =>
        /\ ValidRowsAreBothDefined
        /\ Cardinality(ValidRows) < 3 => ratio_prof.corr = None
        /\ Cardinality(ValidRows) >= 3 =>
              /\ ratio_prof.corr = None <=> (AllEqual(ValidRatios) \/ AllEqual(ValidAvgs))
              /\ ratio_prof.corr # None =>
                    /\ ratio_prof.corr = CorrCoef(ValidRatios, ValidAvgs)
                    /\ ratio_prof.corr.k = "corr"

\* three valid schools beside a school that is not valid, and a perfect
\* negative correlation recorded
C8_Witness ==
    /\ pc = "returned"
    /\ Len(ratio_tbl) = 4
    /\ Cardinality(ValidRows) = 3
    /\ ratio_prof.corr.k = "corr"
    /\ ratio_prof.corr.n = -1
    /\ ratio_prof.corr.sq = Num(1)

(***************************************************************************)
(* ratio_vs_proficiency called as the pipeline calls it, on the table      *)
(* staffing_ratio_table returns for the bridge, with assessment rows whose *)
(* school_id need not be the school the bridge gives their student.        *)
(***************************************************************************)
\* one teacher, on a full FTE at every school
OneTeacher == <<[educator_id |-> 1, role |-> "teacher", certification |-> "standard"]>>

FullyStaffed ==
    [k \in DOMAIN SetToSeq(Ids) |->
        [school_id |-> SetToSeq(Ids)[k], educator_id |-> 1, fte |-> 100]]

BridgeInputs ==
    {<<>>} \X {<<>>} \X TablesOver(BridgeRowSpace, MaxRows) \X {OneTeacher}
       \X {FullyStaffed} \X TablesOver(AssessmentRowSpace(Ids, {0, 1}), MaxRows)

InitBridge ==
    /\ \E t \in BridgeInputs : Call("ratio_vs_proficiency", t)
    /\ ratio_tbl = StaffingRatioTableOf(student_school, staffing, educators)

SpecBridge == InitBridge /\ [][RatioVsProficiency]_vars

\* the spring assessment rows of the students the bridge maps to school s
BridgedSpringRows(s) ==
    {a \in DOMAIN assessments :
        /\ assessments[a].term = "spring"
        /\ \E b \in DOMAIN student_school :
              /\ student_school[b].student_id = assessments[a].student_id
              /\ student_school[b].school_id = s}

\* C12: in ratio_vs_proficiency each school's avg_proficiency is the mean of
\* proficient_flag over the spring assessment rows of exactly the students
\* the bridge maps to that school (undefined when there is none), whatever
\* school_id the assessment rows carry.
C12_ProficiencyOfBridgedStudents ==
    pc = "returned" =>
        \A k \in DOMAIN ratio_prof.df :
            LET rows == BridgedSpringRows(ratio_prof.df[k].school_id)
            IN  ratio_prof.df[k].avg_proficiency =
                  IF rows = {} THEN NaN
                  ELSE Frac(SumSeq([a \in DOMAIN assessments |->
                                      IF a \in rows THEN assessments[a].proficient_flag
                                      ELSE 0]),
                            Cardinality(rows))

(***************************************************************************)
(* scripts/run_pipeline.py: main as far as the raw and the curated tables  *)
(* go (the report, the analysis tables and the brief are written from them *)
(* and read by nothing), and a second run of it over what the first left.  *)
(***************************************************************************)
\* the strings pd.read_csv reads as a missing value
NaStrings == {"", "#N/A", "#N/A N/A", "#NA", "-1.#IND", "-1.#QNAN", "-NaN", "-nan",
              "1.#IND", "1.#QNAN", "<NA>", "N/A", "NA", "NULL", "NaN", "None",
              "n/a", "nan", "null"}

StringColumns == {"school_level", "role", "term", "subject"}

\* a cell written by to_csv and read back by read_csv: an integer column
\* comes back as written, a string comes back missing when it spells one of
\* the missing values
ReadCell(col, v) == IF col \in StringColumns /\ v \in NaStrings THEN "NaN" ELSE v

ReadCsv(tbl) ==
    [k \in DOMAIN tbl |-> [col \in DOMAIN tbl[k] |-> ReadCell(col, tbl[k][col])]]

\* schools, students, ... = _load_raw()
LoadRaw ==
    /\ pc = "done"
    /\ schools' = ReadCsv(out_dir.files.schools)
    /\ students' = ReadCsv(out_dir.files.students)
    /\ student_school' = ReadCsv(out_dir.files.student_school)
    /\ educators' = ReadCsv(out_dir.files.educators)
    /\ staffing' = ReadCsv(out_dir.files.staffing)
    /\ assessments' = ReadCsv(out_dir.files.assessments)
    /\ pc' = "curated"
    /\ UNCHANGED <<cfg, draws, out_dir, i, outputs, rng, warehouse, prev>>

\* the six to_csv calls into warehouse/out
WriteCurated ==
    /\ pc = "curated"
    /\ warehouse' = [dim_school |-> schools,
                     dim_student |-> students,
                     dim_educator |-> educators,
                     fct_staffing |-> staffing,
                     fct_assessment |-> assessments,
                     bridge_student_school |-> student_school]
    /\ pc' = "finished"
    /\ UNCHANGED <<cfg, draws, out_dir, tables, i, outputs, rng, prev>>

\* main is run again with the same GenConfig after a run that finished or
\* raised: its variables are new, the directories are as the run left them,
\* and default_rng(cfg.seed) starts the same stream from its first position
Rerun ==
    /\ pc \in {"finished", "raised"}
    /\ prev = <<>>
    /\ prev' = [pc |-> pc, raw |-> out_dir.files, curated |-> warehouse]
    /\ pc' = "default_rng"
    /\ draws' = 0
    /\ i' = 0
    /\ schools' = <<>> /\ students' = <<>> /\ student_school' = <<>>
    /\ educators' = <<>> /\ staffing' = <<>> /\ assessments' = <<>>
    /\ UNCHANGED <<cfg, out_dir, outputs, rng, warehouse>>

\* the configurations the pipeline is run with
PipelineConfigs == {c \in GenConfigs : c.n_students < MaxStudents}

InitPipeline == InitGen /\ cfg \in PipelineConfigs

NextPipeline ==
    \/ NextGen
    \/ LoadRaw
    \/ WriteCurated
    \/ Rerun

SpecPipeline == InitPipeline /\ [][NextPipeline]_vars

\* C11: a second run with the same seed and configuration ends as the first
\* did, and when it finishes the six raw tables it wrote and the curated
\* tables are the ones the first run left (same rows, values and order);
\* when it has written the raw tables they are already those of the first.
C11_RerunReproducesTables ==
    prev # <<>> =>
        /\ pc = "done" => prev.pc = "finished" /\ out_dir.files = prev.raw
        /\ pc \in {"finished", "raised"} =>
              /\ pc = prev.pc
              /\ out_dir.files = prev.raw
              /\ warehouse = prev.curated

\* a second run finished, for a student at the second of two schools and an
\* educator split 0.37 / 0.63 between them
C11_Witness ==
    /\ prev # <<>>
    /\ pc = "finished"
    /\ Len(out_dir.files.students) = 1
    /\ out_dir.files.student_school[1].school_id = FirstSchoolId + 1
    /\ Len(out_dir.files.staffing) = 2
    /\ out_dir.files.staffing[1].fte = 37
    /\ warehouse.fct_staffing[2].fte = 63

=============================================================================
